---- MODULE Spec2Model ----
(***************************************************************************)
(* Model of sklearn_common_tests/_api/estimator.py: the estimator API      *)
(* checks (clone, parameter init, get_params, set_params, round trip, fit) *)
(* applied to candidate estimators.                                        *)
(*                                                                         *)
(* Python objects are denoted by integers: `x is y` is integer equality.   *)
(* Values <= 0 are immutable atoms (copy.deepcopy returns the very same    *)
(* object); values >= 1 are ids of mutable objects held in `heap`.         *)
(***************************************************************************)
EXTENDS Integers, Sequences, FiniteSets, TLC

VARIABLES
    estimator,   \* the candidate's class: signature, marker, method behaviours
    heap,        \* the object store: id -> object; the candidate is heap[Root]
    check,       \* the check that ran ("none" before any)
    result,      \* its outcome: pass, a raised contract violation, or a crash
    locals       \* local variables of the check, as they stand when it ends

vars == <<estimator, heap, check, result, locals>>

----------------------------------------------------------------------------
(* Bounds of the model *)

\* longest `_required_parameters` list a candidate class declares
MaxRequired == 1

\* deepest nesting of parameter-bearing values below the candidate
MaxNest == 2

\* longest list of (name, component) tuples a parameter holds
MaxList == 2
MaxEstimators == 2

----------------------------------------------------------------------------
(* Values *)

PyNone == 0      \* None
PyOne == -1      \* the int 1
PyOneF == -2     \* the float 1.0: equal to 1, another object
NpInf == -3      \* np.inf
NegInf == -4     \* -np.inf
NpNaN == -5      \* np.nan
FNaN == -6       \* another NaN float, e.g. float("nan")
PyFunc == -7     \* a function object
PyStr == -8      \* the str "xxx"
NpOne == -9      \* numpy.int64(1)
PyClass == -10   \* the class of an estimator, as a value

Atoms == {PyNone, PyOne, PyOneF, NpInf, NegInf, NpNaN, FNaN, PyFunc, PyStr,
          NpOne, PyClass}

\* the candidate under test
Root == 1

IsRef(v) == v >= 1

\* sklearn.utils.is_scalar_nan
is_scalar_nan(v) == v \in {NpNaN, FNaN}

\* type(v).__name__
TypeOf(h, v) ==
    CASE v = PyNone -> "NoneType"
      [] v = PyOne -> "int"
      [] v \in {PyOneF, NpInf, NegInf, NpNaN, FNaN} -> "float"
      [] v = PyFunc -> "function"
      [] v = PyStr -> "str"
      [] v = NpOne -> "numpy.int64"
      [] v = PyClass -> "type"
      [] OTHER -> h[v].kind

\* callable(v)
callable(h, v) == v \in {PyFunc, PyClass}

\* the numeric value of a number, for ==
NumClass(v) == IF v \in {PyOneF, NpOne} THEN PyOne ELSE v

\* x == y: numbers by value (NaN equals nothing, itself included), lists by
\* their elements, any other object by identity
RECURSIVE PyEq(_, _, _)
PyEq(h, x, y) ==
    IF is_scalar_nan(x) \/ is_scalar_nan(y) THEN FALSE
    ELSE IF ~IsRef(x) \/ ~IsRef(y) THEN NumClass(x) = NumClass(y)
    ELSE IF h[x].kind = "list" /\ h[y].kind = "list"
        THEN /\ Len(h[x].items) = Len(h[y].items)
             /\ \A i \in 1..Len(h[x].items) :
                    /\ h[x].items[i][1] = h[y].items[i][1]
                    /\ \/ h[x].items[i][2] = h[y].items[i][2]
                       \/ PyEq(h, h[x].items[i][2], h[y].items[i][2])
    ELSE x = y

\* the comparison containers use: identity first, then ==
RichEq(h, x, y) == x = y \/ PyEq(h, x, y)

----------------------------------------------------------------------------
(* Objects *)

\* an estimator instance: vars(obj) is attrs, keyed by the attribute name
\* split at "__" (the attribute `a` is <<"a">>, an attribute `a__b` <<"a", "b">>)
EstObj(cls, attrs) == [kind |-> "est", cls |-> cls, attrs |-> attrs, items |-> <<>>]

\* a list of (name, component) tuples
ListObj(items) == [kind |-> "list", cls |-> "list", attrs |-> <<>>, items |-> items]

\* any other mutable object
PlainObj == [kind |-> "obj", cls |-> "object", attrs |-> <<>>, items |-> <<>>]

Range(s) == {s[i] : i \in DOMAIN s}

\* sequences of distinct elements of S, at most n long
RECURSIVE DistinctSeqs(_, _)
DistinctSeqs(S, n) ==
    IF n = 0 THEN {<<>>}
    ELSE LET shorter == DistinctSeqs(S, n - 1)
             longer == UNION {{Append(s, x) : x \in S \ Range(s)} : s \in shorter}
         IN shorter \cup longer

----------------------------------------------------------------------------
(* Object ids: an object created as the k-th child of another gets the id    *)
(* Child(parent, k); a deep copy made in generation g gets Copy(id, g)       *)

Fan == IF MaxList > 2 THEN MaxList ELSE 2

Stride == 2 * Fan ^ (MaxNest + 1)

NameIndex(n) == IF n = "a" THEN 0 ELSE 1

Child(id, k) == id * Fan + k

Max(S) == CHOOSE m \in S : \A x \in S : x <= m

\* a generation no object of the heap belongs to
NextGen(h) == 1 + Max({x \div Stride : x \in DOMAIN h})

Copy(v, g) == IF IsRef(v) THEN (v % Stride) + g * Stride ELSE v

\* the objects an object refers to
Refs(obj) ==
    {obj.attrs[p] : p \in DOMAIN obj.attrs} \cup {obj.items[i][2] : i \in DOMAIN obj.items}

\* the objects reachable from the values vs
RECURSIVE Reach(_, _)
Reach(h, vs) ==
    LET ids == {v \in vs : IsRef(v)}
    IN  IF ids = {} THEN {}
        ELSE ids \cup Reach(h, UNION {Refs(h[x]) : x \in ids})

\* copy.deepcopy of the values vs, in generation g: the heap with the copies
deepcopy(h, vs, g) ==
    LET src == Reach(h, vs)
        from(x) == CHOOSE y \in src : Copy(y, g) = x
        copied(obj) ==
            [obj EXCEPT !.attrs = [p \in DOMAIN obj.attrs |-> Copy(obj.attrs[p], g)],
                        !.items = [i \in DOMAIN obj.items |->
                                    <<obj.items[i][1], Copy(obj.items[i][2], g)>>]]
    IN  [x \in DOMAIN h \cup {Copy(y, g) : y \in src} |->
            IF x \in DOMAIN h THEN h[x] ELSE copied(h[from(x)])]

----------------------------------------------------------------------------
(* Outcomes of a check *)

NoResult == [status |-> "none", exc |-> "none", rule |-> "none", param |-> <<>>]
Pass == [status |-> "pass", exc |-> "none", rule |-> "none", param |-> <<>>]
\* a contract violation the check raises itself, with its diagnostic
Violation(exc, rule, param) ==
    [status |-> "violation", exc |-> exc, rule |-> rule, param |-> param]
\* an exception the check does not raise itself
Crash(exc) == [status |-> "error", exc |-> exc, rule |-> "none", param |-> <<>>]

----------------------------------------------------------------------------
(* Candidate classes *)

\* one inspect.Parameter of __init__: has_default is `default != empty`
Param(name, has_default, default) ==
    [name |-> name, has_default |-> has_default, default |-> default]

\* a class, a subclass of it, and an unrelated class
Classes == {"Est", "SubEst", "str"}

Mro(cls) ==
    CASE cls = "Est" -> <<"Est", "object">>
      [] cls = "SubEst" -> <<"SubEst", "Est", "object">>
      [] OTHER -> <<cls, "object">>

\* isinstance(obj, cls), from the class of obj
isinstance(obj_cls, cls) == cls \in Range(Mro(obj_cls))

\* names starting with "_"
PrivateNames == {"_private"}
startswith_underscore(attr) == attr \in PrivateNames

\* a class that follows the API, as sklearn.base.BaseEstimator does
BaseClass ==
    [cls |-> "Est",
     init_params |-> <<Param("a", TRUE, PyNone)>>,
     ancestors |-> {},
     has_required |-> FALSE,
     required |-> <<>>,
     sklearn_clone |-> "absent",
     clone_cls |-> "Est",
     init_copies |-> FALSE,
     has_get_params |-> TRUE,
     deep_sig |-> "True",
     get_mode |-> "deep",
     has_set_params |-> TRUE,
     set_mode |-> "store",
     returns_self |-> TRUE,
     returns_copy |-> FALSE,
     fresh_keys |-> FALSE,
     has_fit |-> TRUE,
     fit_mode |-> "self"]

\* a fresh object id
NewId(h) == 1 + (CHOOSE m \in DOMAIN h : \A x \in DOMAIN h : x <= m)

----------------------------------------------------------------------------
(* The candidate's get_params *)

\* hasattr(value, "get_params"): estimator instances have it
has_get_params(h, v) == IsRef(v) /\ h[v].kind = "est"

\* hasattr(param_value, "get_params") in the worklist loop: an estimator
\* class has the attribute as well as its instances
hasattr_get_params(h, v) == has_get_params(h, v) \/ v = PyClass

\* the candidate and the copies made of it are the instances of its class
IsCandidate(id) == id % Stride = Root

\* the names get_params(deep=False) reports: the candidate's class decides
\* for the candidate, a nested estimator reports the parameters it stores
ParamNames(est, h, id) ==
    IF IsCandidate(id) /\ est.get_mode # "dict"
    THEN {<<est.init_params[i].name>> : i \in DOMAIN est.init_params}
    ELSE DOMAIN h[id].attrs

\* get_params(deep=False) reads every reported name with getattr
ShallowRaises(est, h, id) == ~(ParamNames(est, h, id) \subseteq DOMAIN h[id].attrs)

\* BaseEstimator.get_params: the parameters `names` of object id and, with
\* deep, under `name__key` those of every value that has get_params
RECURSIVE base_get_params(_, _, _, _)
base_get_params(h, id, names, deep) ==
    LET attrs == h[id].attrs
        nested == {p \in names : has_get_params(h, attrs[p])}
        sub(p) == base_get_params(h, attrs[p], DOMAIN h[attrs[p]].attrs, TRUE)
    IN  IF ~deep THEN [p \in names |-> attrs[p]]
        ELSE [q \in names \cup UNION {{p \o r : r \in DOMAIN sub(p)} : p \in nested} |->
                IF q \in names THEN attrs[q] ELSE sub(<<q[1]>>)[Tail(q)]]

IsList(h, v) == IsRef(v) /\ h[v].kind = "list"

\* _BaseComposition._get_params(attr, deep): the parameters of the class and,
\* with deep, each component of the list under its name and the parameters
\* of a component that has get_params under name__key
composition_get_params(h, id, names, attr, deep) ==
    LET out == base_get_params(h, id, names, deep)
        estimators == h[id].attrs[attr]
        items == h[estimators].items
        named == [k \in {<<items[i][1]>> : i \in DOMAIN items} |->
                    items[CHOOSE i \in DOMAIN items : <<items[i][1]>> = k][2]]
        nested == {k \in DOMAIN named : has_get_params(h, named[k])}
        sub(k) == base_get_params(h, named[k], DOMAIN h[named[k]].attrs, TRUE)
        inner == [q \in UNION {{k \o r : r \in DOMAIN sub(k)} : k \in nested} |->
                    sub(<<q[1]>>)[Tail(q)]]
    IN  IF ~deep \/ ~IsList(h, estimators) THEN out
        ELSE inner @@ named @@ out

\* get_params(deep) of object id: the candidate's own class decides for the
\* candidate and its copies, every other estimator follows BaseEstimator
get_params(est, h, id, deep) ==
    IF ~IsCandidate(id) THEN base_get_params(h, id, DOMAIN h[id].attrs, deep)
    ELSE CASE est.get_mode = "deep" ->
                base_get_params(h, id, ParamNames(est, h, id), deep)
           [] est.get_mode = "shallow" ->
                base_get_params(h, id, ParamNames(est, h, id), FALSE)
           [] est.get_mode = "empty_deep" ->
                IF deep THEN <<>>
                ELSE base_get_params(h, id, ParamNames(est, h, id), FALSE)
           [] est.get_mode = "none_deep" ->
                IF deep THEN [p \in ParamNames(est, h, id) |-> PyNone]
                ELSE base_get_params(h, id, ParamNames(est, h, id), FALSE)
           [] est.get_mode = "composition" ->
                composition_get_params(h, id, ParamNames(est, h, id),
                                       <<est.required[1]>>, deep)
           [] OTHER -> h[id].attrs

----------------------------------------------------------------------------
(* sklearn.base.clone, as the checks use it *)

\* clone(estimator): __sklearn_clone__ decides when the class defines it;
\* otherwise the parameters are read with get_params(deep=False), copied, a
\* new instance of the class is constructed from them, and every parameter of
\* the new instance must be the very object that was passed to __init__
clone(est, h) ==
    CASE est.sklearn_clone = "self" ->
            [exc |-> "none", value |-> Root, cls |-> est.cls]
      [] est.sklearn_clone = "new" ->
            [exc |-> "none",
             value |-> IF est.clone_cls = "str" THEN PyStr ELSE NewId(h),
             cls |-> est.clone_cls]
      [] OTHER ->
            IF ~est.has_get_params
            THEN [exc |-> "TypeError", value |-> PyNone, cls |-> "NoneType"]
            ELSE IF ShallowRaises(est, h, Root)
            THEN [exc |-> "AttributeError", value |-> PyNone, cls |-> "NoneType"]
            ELSE IF est.init_copies
                    /\ \E p \in ParamNames(est, h, Root) : IsRef(h[Root].attrs[p])
            THEN [exc |-> "RuntimeError", value |-> PyNone, cls |-> "NoneType"]
            ELSE [exc |-> "none", value |-> NewId(h), cls |-> est.cls]

----------------------------------------------------------------------------
(* check_estimator_api_clone *)

\* accepts any estimator, whatever its class
clone_assertion_any_estimator(obj_cls, cls) == obj_cls \in {"Est", "SubEst"}

\* the assertion of the clone check on the class of the duplicate
clone_assertion(obj_cls, cls) == isinstance(obj_cls, cls)

check_estimator_api_clone_result(est, h) ==
    LET cloned_estimator == clone(est, h)
    IN  IF cloned_estimator.exc = "TypeError"
        THEN Violation("TypeError", "no_get_params", <<>>)
        ELSE IF cloned_estimator.exc # "none"
        THEN Crash(cloned_estimator.exc)
        ELSE IF ~clone_assertion(cloned_estimator.cls, est.cls)
        THEN Violation("AssertionError", "clone_not_same_class", <<>>)
        ELSE Pass

CheckClone ==
    /\ check = "none"
    /\ check' = "clone"
    /\ result' = check_estimator_api_clone_result(estimator, heap)
    /\ locals' = [cloned_estimator |-> clone(estimator, heap)]
    /\ UNCHANGED <<estimator, heap>>

----------------------------------------------------------------------------
(* check_estimator_api_parameter_init *)

\* _get_init_params_from_signature(estimator): the parameters of __init__
get_init_params_from_signature(est) == est.init_params

\* the names of the __init__ parameters of every class of the MRO
estimator_parent_init_params_names(est) ==
    {est.init_params[i].name : i \in DOMAIN est.init_params} \cup est.ancestors

\* keeps the private attributes instead of dropping them
invalid_attributes_keep_private(est, h) ==
    {attr \in ({p[1] : p \in DOMAIN h[Root].attrs}
                \ {est.init_params[i].name : i \in DOMAIN est.init_params})
                \ ({est.init_params[i].name : i \in DOMAIN est.init_params}
                        \cup est.ancestors) :
        startswith_underscore(attr)}

\* the attributes set on the instance that are neither parameters nor private
invalid_attributes(est, h) ==
    {attr \in ({p[1] : p \in DOMAIN h[Root].attrs}
                \ {est.init_params[i].name : i \in DOMAIN est.init_params})
                \ estimator_parent_init_params_names(est) :
        ~startswith_underscore(attr)}

\* getattr(estimator, "_required_parameters", [])
required_parameters_or_empty(est) == IF est.has_required THEN est.required ELSE <<>>

\* estimator_init_params[len(_required_parameters):]
checked_init_params(est) ==
    SubSeq(get_init_params_from_signature(est),
           Len(required_parameters_or_empty(est)) + 1,
           Len(get_init_params_from_signature(est)))

\* np.core.numerictypes.allTypes.values()
numpy_scalar_types == {"numpy.int64"}

allowed_types ==
    {"str", "int", "float", "bool", "tuple", "NoneType", "type"}
        \cup numpy_scalar_types

\* lets a list default through
allowed_value_or_list(h, default) ==
    TypeOf(h, default) \in allowed_types \cup {"list"} \/ callable(h, default)

allowed_value(h, default) == TypeOf(h, default) \in allowed_types \/ callable(h, default)

\* lets any NaN through
stored_unchanged_skip_nan(h, value, default) ==
    IF is_scalar_nan(value) THEN TRUE ELSE PyEq(h, value, default)

\* the stored value against the default: a NaN by identity, the rest by ==
stored_unchanged(h, value, default) ==
    IF is_scalar_nan(value) THEN value = default ELSE PyEq(h, value, default)

\* the loop over the checked parameters, from the i-th on
RECURSIVE param_loop(_, _, _, _)
param_loop(h, params, estimator_get_params, i) ==
    IF i > Len(params) THEN Pass
    ELSE LET param == params[i]
         IN  IF ~param.has_default
             THEN Violation("AssertionError", "no_default", <<param.name>>)
             ELSE IF ~allowed_value(h, param.default)
             THEN Violation("AssertionError", "type_not_allowed", <<param.name>>)
             ELSE IF <<param.name>> \notin DOMAIN estimator_get_params
             THEN Crash("KeyError")
             ELSE IF ~stored_unchanged(h, estimator_get_params[<<param.name>>],
                                       param.default)
             THEN Violation("AssertionError", "mutated_on_init", <<param.name>>)
             ELSE param_loop(h, params, estimator_get_params, i + 1)

check_estimator_api_parameter_init_result(est, h) ==
    LET cloned == clone(est, h)
    IN  IF cloned.exc = "RuntimeError"
        THEN Violation("AssertionError", "modified_input", <<>>)
        ELSE IF cloned.exc = "AttributeError"
        THEN Violation("AttributeError", "not_stored", <<>>)
        ELSE IF cloned.exc # "none"
        THEN Crash(cloned.exc)
        ELSE IF invalid_attributes(est, h) # {}
        THEN Violation("AssertionError", "extra_attributes", <<>>)
        ELSE IF ~est.has_get_params \/ ShallowRaises(est, h, Root)
        THEN Crash("AttributeError")
        ELSE param_loop(h, checked_init_params(est), get_params(est, h, Root, TRUE), 1)

CheckParameterInit ==
    /\ check = "none"
    /\ check' = "parameter_init"
    /\ result' = check_estimator_api_parameter_init_result(estimator, heap)
    /\ locals' = [invalid_attributes |-> invalid_attributes(estimator, heap)]
    /\ UNCHANGED <<estimator, heap>>

----------------------------------------------------------------------------
(* Candidates of the constructor checks *)

\* the list object a default such as `param=[]` denotes
DefaultList == 2

CtorHeap(attrs) ==
    [id \in {Root, DefaultList} |->
        IF id = Root THEN EstObj("Est", attrs) ELSE ListObj(<<>>)]

\* the declarations of one parameter: without a default, or with one
ParamDecls(name) ==
    {Param(name, FALSE, PyNone)}
        \cup {Param(name, TRUE, d) : d \in {PyNone, PyOne, NpNaN, DefaultList, PyFunc, NpOne}}

\* up to two parameters, declared in this order
Signatures ==
    {<<>>} \cup {<<a>> : a \in ParamDecls("a")}
           \cup {<<a, b>> : a \in ParamDecls("a"), b \in ParamDecls("b")}

\* what __init__ left in the attribute of a parameter
StoredValues == {PyNone, PyOneF, NpNaN, FNaN, DefaultList, PyFunc}

\* the attributes of an instance: some of its parameters, and others
InstanceAttrs(sig) ==
    LET names == {sig[i].name : i \in DOMAIN sig}
    IN  UNION {{[p \in {<<n>> : n \in DOMAIN f \cup other} |->
                        IF p[1] \in other THEN PyOne ELSE f[p[1]]] :
                    f \in UNION {[stored -> StoredValues] : stored \in SUBSET names}} :
                other \in {{}, {"extra"}, {"_private"}}}

Markers == DistinctSeqs({"a", "b"}, MaxRequired)

InitCommon ==
    /\ check = "none"
    /\ result = NoResult
    /\ locals = <<>>

InitParameterInit ==
    /\ InitCommon
    /\ \E sig \in Signatures, has_required \in BOOLEAN, required \in Markers,
          ancestors \in {{}, {"c"}, {"extra"}}, init_copies \in BOOLEAN,
          sklearn_clone \in {"absent", "new"} :
          /\ has_required \/ required = <<>>
          /\ Range(required) \subseteq {sig[i].name : i \in DOMAIN sig}
          /\ estimator = [BaseClass EXCEPT !.init_params = sig,
                                           !.has_required = has_required,
                                           !.required = required,
                                           !.ancestors = ancestors,
                                           !.init_copies = init_copies,
                                           !.sklearn_clone = sklearn_clone]
          /\ \E attrs \in InstanceAttrs(sig) : heap = CtorHeap(attrs)

InitClone ==
    /\ InitCommon
    /\ \E cls \in {"Est", "SubEst"}, sklearn_clone \in {"absent", "self", "new"},
          clone_cls \in Classes, has_get \in BOOLEAN, init_copies \in BOOLEAN :
          /\ sklearn_clone = "new" \/ clone_cls = cls
          /\ estimator = [BaseClass EXCEPT !.cls = cls,
                                           !.sklearn_clone = sklearn_clone,
                                           !.clone_cls = clone_cls,
                                           !.has_get_params = has_get,
                                           !.init_copies = init_copies]
          /\ \E attrs \in InstanceAttrs(BaseClass.init_params) :
                heap = CtorHeap(attrs)

NextClone == CheckClone

NextParameterInit == CheckParameterInit

SpecClone == InitClone /\ [][NextClone]_vars

SpecParameterInit == InitParameterInit /\ [][NextParameterInit]_vars

----------------------------------------------------------------------------
(* Properties of check_estimator_api_clone *)

\* the classes a duplicate may have to be an instance of a class
InstanceOf ==
    {<<"Est", "Est">>, <<"SubEst", "SubEst">>, <<"SubEst", "Est">>, <<"str", "str">>}

ClonePassed == check = "clone" /\ result.status = "pass"

\* C8: the clone check passes only if the duplicate is an instance of
\* exactly the candidate's own concrete type
C8_ExactType == ClonePassed => locals.cloned_estimator.cls = estimator.cls

\* C9 as claimed: a cloning operation that returns the candidate itself does
\* not pass the clone check
C9_SelfCloneRejected ==
    (check = "clone" /\ locals.cloned_estimator.exc = "none"
        /\ locals.cloned_estimator.value = Root) => result.status # "pass"

\* C9 as amended: the clone check passes only if the duplicate is an instance
\* of the candidate's class, and it passes when the cloning operation returns
\* the candidate itself
C9_SameClassNotNew ==
    /\ ClonePassed =>
            /\ locals.cloned_estimator.exc = "none"
            /\ <<locals.cloned_estimator.cls, estimator.cls>> \in InstanceOf
    /\ (check = "clone" /\ locals.cloned_estimator.exc = "none"
            /\ locals.cloned_estimator.value = Root) => result.status = "pass"

C9_Witness ==
    /\ ClonePassed
    /\ estimator.sklearn_clone = "self"
    /\ locals.cloned_estimator.value = Root

----------------------------------------------------------------------------
(* Properties of check_estimator_api_parameter_init *)

ParameterInitPassed == check = "parameter_init" /\ result.status = "pass"

\* the instance attributes whose names do not start with "_"
PublicAttrs == {p[1] : p \in DOMAIN heap[Root].attrs} \ PrivateNames

\* the parameters declared by the class and by its ancestors
DeclaredNames ==
    {estimator.init_params[i].name : i \in DOMAIN estimator.init_params}
        \cup estimator.ancestors

\* C5 as claimed: the check passes only if the public attributes are exactly
\* the declared parameter names of the class and its ancestors
C5_ExactlyDeclared == ParameterInitPassed => PublicAttrs = DeclaredNames

\* C5 as amended: the check passes only if every public attribute is a
\* declared parameter name of the class or of one of its ancestors
C5_SubsetOfDeclared == ParameterInitPassed => PublicAttrs \subseteq DeclaredNames

C5_Witness ==
    /\ ParameterInitPassed
    /\ PublicAttrs # {}
    /\ PublicAttrs # DeclaredNames
    /\ <<"_private">> \in DOMAIN heap[Root].attrs

NaNs == {NpNaN, FNaN}

\* NaN-aware equality of a retrieved value and a default
NaNAwareEqual(value, default) ==
    IF value \in NaNs THEN default \in NaNs
    ELSE default \notin NaNs /\ NumClass(value) = NumClass(default)

\* the checked parameters with a default whose retrieved value differs from it
ChangedDefaults ==
    {i \in DOMAIN checked_init_params(estimator) :
        LET param == checked_init_params(estimator)[i]
        IN  /\ param.has_default
            /\ \/ <<param.name>> \notin DOMAIN heap[Root].attrs
               \/ ~NaNAwareEqual(heap[Root].attrs[<<param.name>>], param.default)}

AllowedKinds ==
    {"str", "int", "float", "bool", "tuple", "NoneType", "type", "numpy.int64",
     "function"}

\* the checked parameters whose default is of a kind that is not admitted
DisallowedDefaults ==
    {i \in DOMAIN checked_init_params(estimator) :
        LET param == checked_init_params(estimator)[i]
        IN  /\ param.has_default
            /\ TypeOf(heap, param.default) \notin AllowedKinds}

\* the parameter loop was entered: the clone and attribute stages went through
ParamLoopEntered ==
    /\ check = "parameter_init"
    /\ result.rule \notin {"modified_input", "not_stored", "extra_attributes"}
    /\ ~(result.status = "error" /\ result.exc = "AttributeError")

\* C13: the check fails whenever a checked parameter has a default whose type
\* is neither in the allowed set nor callable; a 'type not allowed' violation
\* names such a parameter; and when the first checked parameter has a list
\* default the loop reports it as not allowed, whatever value is stored
C13_AllowedDefaultKinds ==
    check = "parameter_init" =>
        /\ DisallowedDefaults # {} => result.status \notin {"none", "pass"}
        /\ result.rule = "type_not_allowed" =>
                /\ result.status = "violation"
                /\ result.exc = "AssertionError"
                /\ \E i \in DisallowedDefaults :
                        result.param = <<checked_init_params(estimator)[i].name>>
        /\ (ParamLoopEntered /\ 1 \in DisallowedDefaults) =>
                /\ result.rule = "type_not_allowed"
                /\ result.param = <<checked_init_params(estimator)[1].name>>

C13_Witness ==
    /\ check = "parameter_init"
    /\ result.rule = "type_not_allowed"
    /\ \E i \in DOMAIN checked_init_params(estimator) :
            LET param == checked_init_params(estimator)[i]
            IN  /\ result.param = <<param.name>>
                /\ param.default = DefaultList
                /\ <<param.name>> \in DOMAIN heap[Root].attrs
                /\ heap[Root].attrs[<<param.name>>] = param.default

\* C7: the check passes only if every declared parameter whose name is not
\* in the required-parameters marker has a default value, and it never
\* reports a parameter named in the marker as lacking a default
C7_NotInMarkerHasDefault ==
    /\ ParameterInitPassed =>
            \A i \in DOMAIN estimator.init_params :
                estimator.init_params[i].name
                        \notin Range(required_parameters_or_empty(estimator))
                    => estimator.init_params[i].has_default
    /\ (check = "parameter_init" /\ result.rule = "no_default") =>
            result.param[1] \notin Range(required_parameters_or_empty(estimator))

----------------------------------------------------------------------------
(* check_estimator_api_get_params *)

\* a set as a sequence, in some order
RECURSIVE SetToSeq(_)
SetToSeq(S) ==
    IF S = {} THEN <<>>
    ELSE LET x == CHOOSE y \in S : TRUE IN <<x>> \o SetToSeq(S \ {x})

\* the name a parameter of a popped estimator is recorded under
pname(est_name, param_name, nesting_level) ==
    IF nesting_level > 0 THEN est_name \o param_name ELSE param_name

\* the queue, the mapping and the counter before the while loop
worklist_start(est, h) ==
    [nested_estimator |-> <<<<<<est.cls>>, Root>>>>,
     expected_params |-> get_params(est, h, Root, FALSE),
     nesting_level |-> 0,
     exc |-> "none"]

\* one turn of the while loop over the LIFO queue: get the last entry put,
\* call its get_params(deep=False), which an estimator class cannot answer
\* without an instance, record its parameters and put every parameter that
\* has get_params
worklist_turn(est, h, st) ==
    LET top == st.nested_estimator[Len(st.nested_estimator)]
        rest == SubSeq(st.nested_estimator, 1, Len(st.nested_estimator) - 1)
    IN  IF top[2] = PyClass
        THEN [st EXCEPT !.nested_estimator = rest, !.exc = "TypeError"]
        ELSE LET est_name == top[1]
                 est_params == get_params(est, h, top[2], FALSE)
                 recorded == [q \in {pname(est_name, k, st.nesting_level) :
                                        k \in DOMAIN est_params} |->
                                est_params[CHOOSE k \in DOMAIN est_params :
                                            pname(est_name, k, st.nesting_level) = q]]
                 put == SetToSeq({<<pname(est_name, k, st.nesting_level),
                                    est_params[k]>> :
                                    k \in {k \in DOMAIN est_params :
                                            hasattr_get_params(h, est_params[k])}})
             IN  [nested_estimator |-> rest \o put,
                  expected_params |-> recorded @@ st.expected_params,
                  nesting_level |-> st.nesting_level + 1,
                  exc |-> "none"]

\* the while loop, until the queue is empty or a turn raises
RECURSIVE worklist(_, _, _)
worklist(est, h, st) ==
    IF st.exc # "none" \/ st.nested_estimator = <<>> THEN st
    ELSE worklist(est, h, worklist_turn(est, h, st))

\* the expected deep parameters of the alternative implementation
expected_deep_params(est, h) ==
    worklist(est, h, worklist_start(est, h)).expected_params

\* the exception the loop ends with, if any
worklist_exc(est, h) == worklist(est, h, worklist_start(est, h)).exc

\* a containment that looks at the keys only
keys_subset(h, shallow, deep) == DOMAIN shallow \subseteq DOMAIN deep

\* every item of the shallow mapping is an item of the deep one
items_subset(h, shallow, deep) ==
    \A k \in DOMAIN shallow : k \in DOMAIN deep /\ RichEq(h, deep[k], shallow[k])

\* d1 == d2 on dicts
dict_eq(h, d1, d2) ==
    /\ DOMAIN d1 = DOMAIN d2
    /\ \A k \in DOMAIN d1 : RichEq(h, d1[k], d2[k])

\* the candidate after the worklist ran: a get_params that hands out the
\* instance __dict__ itself has had the expected parameters written into it
heap_after_worklist(est, h) ==
    IF est.get_mode = "dict"
    THEN [h EXCEPT ![Root].attrs = expected_deep_params(est, h)]
    ELSE h

\* whether the comparison with the alternative implementation is made
worklist_applies(est) == ~est.has_required

\* the defaults `deep` may have in a signature: none, False, 1 or True
DeepDefaults == {"empty", "False", "1", "True"}

\* a default that is true in a condition
default_is_truthy(default) == default \in {"1", "True"}

\* get_params_signature.parameters["deep"].default is True
default_is_True(default) == default = "True"

init_params_names(est) == {<<est.init_params[i].name>> : i \in DOMAIN est.init_params}

\* lists every declared name as missing
declared_names(init_names, get_names) == init_names

\* estimator_init_params_names - estimator_get_params_names
missing_get_params(init_names, get_names) == init_names \ get_names

\* estimator_get_params_names - estimator_init_params_names
additional_get_params(init_names, get_names) == get_names \ init_names

\* compares the key sets before it looks at the default of `deep`
check_estimator_api_get_params_keys_first(est, h) ==
    IF ~est.has_get_params
    THEN Violation("AssertionError", "no_get_params", <<>>)
    ELSE IF est.deep_sig = "absent"
    THEN Violation("AssertionError", "no_deep_parameter", <<>>)
    ELSE IF ShallowRaises(est, h, Root)
    THEN Crash("AttributeError")
    ELSE IF init_params_names(est) # DOMAIN get_params(est, h, Root, FALSE)
    THEN Violation("AssertionError", "init_get_params_mismatch", <<>>)
    ELSE IF ~default_is_True(est.deep_sig)
    THEN Violation("AssertionError", "deep_default_not_true", <<>>)
    ELSE IF ~items_subset(h, get_params(est, h, Root, FALSE),
                          get_params(est, h, Root, TRUE))
    THEN Violation("AssertionError", "not_subset", <<>>)
    ELSE IF worklist_applies(est) /\ worklist_exc(est, h) # "none"
    THEN Crash(worklist_exc(est, h))
    ELSE IF worklist_applies(est)
            /\ ~dict_eq(heap_after_worklist(est, h),
                        get_params(est, heap_after_worklist(est, h), Root, TRUE),
                        expected_deep_params(est, h))
    THEN Violation("AssertionError", "deep_incorrect", <<>>)
    ELSE Pass

check_estimator_api_get_params_result(est, h) ==
    IF ~est.has_get_params
    THEN Violation("AssertionError", "no_get_params", <<>>)
    ELSE IF est.deep_sig = "absent"
    THEN Violation("AssertionError", "no_deep_parameter", <<>>)
    ELSE IF ~default_is_True(est.deep_sig)
    THEN Violation("AssertionError", "deep_default_not_true", <<>>)
    ELSE IF ShallowRaises(est, h, Root)
    THEN Crash("AttributeError")
    ELSE IF init_params_names(est) # DOMAIN get_params(est, h, Root, FALSE)
    THEN Violation("AssertionError", "init_get_params_mismatch", <<>>)
    ELSE IF ~items_subset(h, get_params(est, h, Root, FALSE),
                          get_params(est, h, Root, TRUE))
    THEN Violation("AssertionError", "not_subset", <<>>)
    ELSE IF worklist_applies(est) /\ worklist_exc(est, h) # "none"
    THEN Crash(worklist_exc(est, h))
    ELSE IF worklist_applies(est)
            /\ ~dict_eq(heap_after_worklist(est, h),
                        get_params(est, heap_after_worklist(est, h), Root, TRUE),
                        expected_deep_params(est, h))
    THEN Violation("AssertionError", "deep_incorrect", <<>>)
    ELSE Pass

\* the check has got as far as the worklist
worklist_ran(est, h) ==
    /\ worklist_applies(est)
    /\ check_estimator_api_get_params_result(est, h).rule
            \in {"none", "deep_incorrect"}
    /\ check_estimator_api_get_params_result(est, h).status # "error"

CheckGetParams ==
    /\ check = "none"
    /\ check' = "get_params"
    /\ result' = check_estimator_api_get_params_result(estimator, heap)
    /\ heap' = IF worklist_ran(estimator, heap)
               THEN heap_after_worklist(estimator, heap) ELSE heap
    /\ locals' = [estimator_get_params_shallow |->
                        IF estimator.has_get_params /\ default_is_True(estimator.deep_sig)
                            /\ ~ShallowRaises(estimator, heap, Root)
                        THEN get_params(estimator, heap, Root, FALSE) ELSE <<>>,
                  estimator_get_params_deep |->
                        IF estimator.has_get_params /\ default_is_True(estimator.deep_sig)
                            /\ ~ShallowRaises(estimator, heap, Root)
                            /\ result'.rule # "init_get_params_mismatch"
                        THEN get_params(estimator, heap, Root, TRUE) ELSE <<>>,
                  expected_params |->
                        IF worklist_ran(estimator, heap)
                        THEN expected_deep_params(estimator, heap) ELSE <<>>,
                  missing_get_params |->
                        IF result'.rule = "init_get_params_mismatch"
                        THEN missing_get_params(init_params_names(estimator),
                                DOMAIN get_params(estimator, heap, Root, FALSE))
                        ELSE {},
                  additional_get_params |->
                        IF result'.rule = "init_get_params_mismatch"
                        THEN additional_get_params(init_params_names(estimator),
                                DOMAIN get_params(estimator, heap, Root, FALSE))
                        ELSE {}]
    /\ UNCHANGED estimator

----------------------------------------------------------------------------
(* set_params *)

has_set_params(h, v) == IsRef(v) /\ h[v].kind = "est"

\* what a call of set_params leaves: the exception raised, if any, and the heap
Returned(h) == [exc |-> "none", h |-> h]
Raised(exc, h) == [exc |-> exc, h |-> h]

\* setattr(obj, name, value) for every item of params
setattrs(h, id, params) == [h EXCEPT ![id].attrs = params @@ @]

\* BaseEstimator.set_params: a name that is not a valid parameter raises
\* ValueError, name=value is set on the object, name__sub=value is passed on
\* to the set_params of the value held under name
RECURSIVE base_set_params(_, _, _, _)
RECURSIVE nested_set_params(_, _, _, _)
base_set_params(h, id, valid_params, params) ==
    IF DOMAIN params = {} THEN Returned(h)
    ELSE IF \E k \in DOMAIN params : <<k[1]>> \notin DOMAIN valid_params
    THEN Raised("ValueError", h)
    ELSE LET own == {k \in DOMAIN params : Len(k) = 1}
             set == [k \in own |-> params[k]]
         IN  nested_set_params(setattrs(h, id, set), set @@ valid_params,
                               SetToSeq({<<k[1]>> : k \in DOMAIN params \ own}),
                               params)

nested_set_params(h, valid_params, keys, params) ==
    IF keys = <<>> THEN Returned(h)
    ELSE LET key == Head(keys)
             target == valid_params[key]
             sub_keys == {Tail(k) : k \in {k \in DOMAIN params :
                                            Len(k) > 1 /\ <<k[1]>> = key}}
             sub_params == [r \in sub_keys |-> params[key \o r]]
             done == base_set_params(h, target,
                        base_get_params(h, target, DOMAIN h[target].attrs, TRUE),
                        sub_params)
         IN  IF ~has_set_params(h, target) THEN Raised("AttributeError", h)
             ELSE IF done.exc # "none" THEN done
             ELSE nested_set_params(done.h, valid_params, Tail(keys), params)

\* setattr(self, name, deepcopy(value)) for every item: each value is copied
\* by a deepcopy call of its own
RECURSIVE setattr_copies(_, _, _, _)
setattr_copies(h, id, keys, params) ==
    IF keys = <<>> THEN h
    ELSE LET g == NextGen(h)
             value == params[Head(keys)]
             copied == deepcopy(h, {value}, g)
         IN  setattr_copies(setattrs(copied, id, Head(keys) :> Copy(value, g)),
                            id, Tail(keys), params)

\* _replace_estimator(attr, name, new_val): a new list in which the tuple
\* called name holds new_val, or a deep copy of it, is stored under attr
replace_estimator(h, id, attr, name, new_val, copying) ==
    LET copied == IF copying THEN deepcopy(h, {new_val}, NextGen(h)) ELSE h
        val == IF copying THEN Copy(new_val, NextGen(h)) ELSE new_val
        old == h[id].attrs[attr]
        new_estimators == Copy(old, NextGen(copied))
        items == [i \in DOMAIN h[old].items |->
                    IF h[old].items[i][1] = name THEN <<name, val>>
                    ELSE h[old].items[i]]
    IN  setattrs((new_estimators :> ListObj(items)) @@ copied, id,
                 attr :> new_estimators)

RECURSIVE replace_estimators(_, _, _, _, _, _)
replace_estimators(h, id, attr, names, params, copying) ==
    IF names = <<>> THEN h
    ELSE replace_estimators(
            replace_estimator(h, id, attr, Head(names)[1],
                              params[Head(names)], copying),
            id, attr, Tail(names), params, copying)

\* _BaseComposition._set_params(attr, **params): the list itself, then the
\* components named in params, then the rest as BaseEstimator does
composition_set_params(est, h, id, attr, params, copying) ==
    LET h1 == IF attr \in DOMAIN params
              THEN setattrs(h, id, attr :> params[attr]) ELSE h
        items == h1[id].attrs[attr]
        item_names == IF IsList(h1, items)
                      THEN {<<h1[items].items[i][1]>> : i \in DOMAIN h1[items].items}
                      ELSE {}
        replaced == (DOMAIN params \ {attr}) \cap item_names
        h2 == replace_estimators(h1, id, attr, SetToSeq(replaced), params, copying)
        rest == DOMAIN params \ ({attr} \cup replaced)
    IN  base_set_params(h2, id, get_params(est, h2, id, TRUE),
                        [k \in rest |-> params[k]])

\* a list value is stored as a new list without its last tuple, any other
\* value as it is
drop_last(h, v) ==
    IF IsList(h, v) /\ h[v].items # <<>>
    THEN [h |-> (Copy(v, NextGen(h)) :>
                    ListObj(SubSeq(h[v].items, 1, Len(h[v].items) - 1))) @@ h,
          v |-> Copy(v, NextGen(h))]
    ELSE [h |-> h, v |-> v]

RECURSIVE setattr_drop_last(_, _, _, _)
setattr_drop_last(h, id, keys, params) ==
    IF keys = <<>> THEN h
    ELSE LET stored == drop_last(h, params[Head(keys)])
         IN  setattr_drop_last(setattrs(stored.h, id, Head(keys) :> stored.v),
                               id, Tail(keys), params)

\* set_params(**params) of the candidate (or a copy of it) at id
set_params(est, h, id, params) ==
    CASE est.set_mode = "store" ->
            base_set_params(h, id, get_params(est, h, id, TRUE), params)
      [] est.set_mode = "setattr" -> Returned(setattrs(h, id, params))
      [] est.set_mode = "copy" ->
            Returned(setattr_copies(h, id, SetToSeq(DOMAIN params), params))
      [] est.set_mode = "new_param" ->
            Returned(setattrs(h, id, (<<"new_param">> :> PyOne) @@ params))
      [] est.set_mode = "composition" ->
            composition_set_params(est, h, id, <<est.required[1]>>, params, FALSE)
      [] est.set_mode = "composition_copy" ->
            composition_set_params(est, h, id, <<est.required[1]>>, params, TRUE)
      [] est.set_mode = "drop_last" ->
            Returned(setattr_drop_last(h, id, SetToSeq(DOMAIN params), params))
      [] OTHER -> Returned(h)

----------------------------------------------------------------------------
(* check_estimator_api_set_params *)

test_values == <<NegInf, NpInf, PyNone>>

\* `current_param_name is param_name`: the key of one get_params call is the
\* object that is the key of another call unless the candidate builds its key
\* strings anew on every call
name_is(est, current_param_name, param_name) ==
    ~est.fresh_keys /\ current_param_name = param_name

\* a turn that sets the parameters of the candidate itself
probe_in_place(est, h, param_name, test_value) ==
    LET original_params == get_params(est, h, Root, FALSE)
        first == set_params(est, h, Root, original_params)
        second == set_params(est, first.h, Root, param_name :> test_value)
        exc == IF first.exc # "none" THEN first.exc ELSE second.exc
    IN  [exc |-> exc,
         cloned_estimator |-> Root,
         original_params |-> original_params,
         current_params |-> IF exc # "none" THEN <<>>
                            ELSE get_params(est, second.h, Root, FALSE),
         h |-> IF exc # "none" THEN first.h ELSE second.h]

\* one turn of the loop: a deep copy of the candidate has its own shallow
\* parameters applied, then param_name set to test_value
probe(est, h, param_name, test_value) ==
    LET g == NextGen(h)
        cloned == Copy(Root, g)
        h1 == deepcopy(h, {Root}, g)
        original_params == get_params(est, h1, cloned, FALSE)
        first == set_params(est, h1, cloned, original_params)
        second == set_params(est, first.h, cloned, param_name :> test_value)
        exc == IF first.exc # "none" THEN first.exc ELSE second.exc
    IN  [exc |-> exc,
         cloned_estimator |-> cloned,
         original_params |-> original_params,
         current_params |-> IF exc # "none" THEN <<>>
                            ELSE get_params(est, second.h, cloned, FALSE),
         h |-> IF exc # "none" THEN h1 ELSE second.h]

\* the keys whose value fails the assertion of the inner loop
probe_failing(est, pr, param_name, test_value) ==
    {k \in DOMAIN pr.current_params :
        IF name_is(est, k, param_name)
        THEN pr.current_params[k] # test_value
        ELSE pr.current_params[k] # pr.original_params[k]}

\* the outcomes of one turn; the inner loop stops at the first failing key in
\* the order of the candidate's mapping
probe_outcomes(est, pr, param_name, test_value) ==
    IF pr.exc # "none" THEN {Crash(pr.exc)}
    ELSE IF DOMAIN pr.original_params # DOMAIN pr.current_params
    THEN {Violation("AssertionError", "key_set", <<>>)}
    ELSE IF probe_failing(est, pr, param_name, test_value) = {} THEN {Pass}
    ELSE {Violation("AssertionError", "identity", k) :
            k \in probe_failing(est, pr, param_name, test_value)}

\* product(all_param_names, test_values)
probes(est, h) ==
    LET names == SetToSeq(DOMAIN get_params(est, h, Root, FALSE))
    IN  [i \in 1..(Len(names) * Len(test_values)) |->
            <<names[((i - 1) \div Len(test_values)) + 1],
              test_values[((i - 1) % Len(test_values)) + 1]>>]

\* the outcomes of the loop from turn i on, each turn being what `turns` says
RECURSIVE probe_loop(_, _, _, _)
probe_loop(est, turns, todo, i) ==
    IF i > Len(todo) THEN {Pass}
    ELSE IF probe_outcomes(est, turns[todo[i]], todo[i][1], todo[i][2]) # {Pass}
    THEN probe_outcomes(est, turns[todo[i]], todo[i][1], todo[i][2])
    ELSE probe_loop(est, turns, todo, i + 1)

\* the turns the loop makes from turn i on
RECURSIVE probes_made(_, _, _, _)
probes_made(est, turns, todo, i) ==
    IF i > Len(todo) THEN {}
    ELSE {todo[i]} \cup
            IF probe_outcomes(est, turns[todo[i]], todo[i][1], todo[i][2]) # {Pass}
            THEN {}
            ELSE probes_made(est, turns, todo, i + 1)

\* what `cloned_estimator.set_params()` returns: the instance, a copy of it
\* made by the call, or nothing
set_params_no_arguments(est, h, id) ==
    IF est.returns_self THEN id
    ELSE IF est.returns_copy THEN Copy(id, NextGen(h))
    ELSE PyNone

\* takes any estimator that comes back for the copy
is_any_estimator(returned, cloned_estimator) == IsRef(returned)

\* `cloned_estimator.set_params() is cloned_estimator`
is_cloned_estimator(returned, cloned_estimator) == returned = cloned_estimator

CheckSetParams ==
    /\ check = "none"
    /\ check' = "set_params"
    /\ IF ~estimator.has_set_params
       THEN /\ result' = Violation("AssertionError", "no_set_params", <<>>)
            /\ locals' = <<>>
       ELSE IF ~is_cloned_estimator(set_params_no_arguments(estimator, heap, Root),
                                    Root)
       THEN /\ result' = Violation("AssertionError", "not_self", <<>>)
            /\ locals' = [returned |->
                            set_params_no_arguments(estimator, heap, Root)]
       ELSE IF ~estimator.has_get_params
       THEN /\ result' = Crash("AttributeError")
            /\ locals' = <<>>
       ELSE \E todo \in {probes(estimator, heap)} :
            \E turns \in {[pv \in Range(todo) |->
                            probe(estimator, heap, pv[1], pv[2])]} :
                /\ result' \in probe_loop(estimator, turns, todo, 1)
                /\ locals' = [probes |->
                                [pv \in probes_made(estimator, turns, todo, 1) |->
                                    turns[pv]]]
    /\ UNCHANGED <<estimator, heap>>

----------------------------------------------------------------------------
(* check_estimator_api_round_trip_get_set_params *)

\* the identity looked at by a comparison that only asks for objects of the
\* same kind
same_kind(h, x, y) == x = y \/ (IsRef(x) /\ IsRef(y) /\ h[x].kind = h[y].kind)

\* `x is y`
same_object(h, x, y) == x = y

\* the condition of the composite branch, for a list that has a first item
composite_branch(est, h, original_params, name) ==
    /\ est.has_required
    /\ Len(name) = 1 /\ name[1] \in Range(est.required)
    /\ IsList(h, original_params[name])

\* zip pairs the tuples up to the end of the shorter list
zip_pairs(h, updated, original) ==
    1..(IF Len(h[updated].items) < Len(h[original].items)
        THEN Len(h[updated].items) ELSE Len(h[original].items))

\* the outcome of the loop body for one key of updated_params
round_trip_key(est, h, original_params, updated_params, name) ==
    IF composite_branch(est, h, original_params, name)
    THEN IF h[original_params[name]].items = <<>> THEN Crash("IndexError")
         ELSE IF ~IsList(h, updated_params[name]) THEN Crash("TypeError")
         ELSE IF \A i \in zip_pairs(h, updated_params[name], original_params[name]) :
                    /\ h[updated_params[name]].items[i][1]
                            = h[original_params[name]].items[i][1]
                    /\ same_object(h, h[updated_params[name]].items[i][2],
                                   h[original_params[name]].items[i][2])
         THEN Pass
         ELSE Violation("AssertionError", "inner_identity", name)
    ELSE IF same_object(h, original_params[name], updated_params[name]) THEN Pass
    ELSE Violation("AssertionError", "identity", name)

\* original_params = deepcopy(estimator.get_params(deep=True)): the copies
\* are made in a generation of their own
snapshot(est, h) ==
    [h |-> deepcopy(h, Range(get_params(est, h, Root, TRUE)), NextGen(h)),
     original_params |->
        [k \in DOMAIN get_params(est, h, Root, TRUE) |->
            Copy(get_params(est, h, Root, TRUE)[k], NextGen(h))]]

\* the keys of A that are not in B
difference(A, B) == A \ B

\* original_params_name.symmetric_difference(updated_params_name)
symmetric_difference(A, B) == (A \ B) \cup (B \ A)

\* the comparison of the key sets and the loop over updated_params, which
\* stops at the first key, in the order of the candidate's mapping, whose
\* body raises
round_trip_outcomes(est, h, original_params, updated_params) ==
    IF DOMAIN original_params # DOMAIN updated_params
    THEN {Violation("AssertionError", "key_set", <<>>)}
    ELSE IF \A name \in DOMAIN updated_params :
                round_trip_key(est, h, original_params, updated_params, name) = Pass
    THEN {Pass}
    ELSE {round_trip_key(est, h, original_params, updated_params, name) :
            name \in DOMAIN updated_params} \ {Pass}

CheckRoundTrip ==
    /\ check = "none"
    /\ check' = "round_trip"
    /\ IF ~estimator.has_get_params \/ ~estimator.has_set_params
       THEN /\ result' = Crash("AttributeError")
            /\ locals' = <<>>
            /\ heap' = heap
       ELSE \E snap \in {snapshot(estimator, heap)} :
            \E set \in {set_params(estimator, snap.h, Root, snap.original_params)} :
            \E updated_params \in {IF set.exc # "none" THEN <<>>
                                   ELSE get_params(estimator, set.h, Root, TRUE)} :
                /\ result' \in IF set.exc # "none" THEN {Crash(set.exc)}
                               ELSE round_trip_outcomes(estimator, set.h,
                                        snap.original_params, updated_params)
                /\ locals' =
                    IF set.exc # "none"
                    THEN [original_params |-> snap.original_params]
                    ELSE IF DOMAIN snap.original_params # DOMAIN updated_params
                    THEN [original_params |-> snap.original_params,
                          updated_params |-> updated_params,
                          problematic |->
                            symmetric_difference(DOMAIN snap.original_params,
                                                 DOMAIN updated_params)]
                    ELSE [original_params |-> snap.original_params,
                          updated_params |-> updated_params]
                /\ heap' = set.h
    /\ UNCHANGED estimator

----------------------------------------------------------------------------
(* Candidates of the get_params, set_params and round-trip checks *)

\* the values a parameter holds besides objects
LeafAtoms == {PyNone, PyOne}

\* the parameters a nested estimator declares
NestedNames == {"a"}

\* the parameters the candidate may declare
RootNames == {"a", "b"}

RECURSIVE MergeAll(_)
MergeAll(hs) ==
    IF hs = {} THEN <<>>
    ELSE LET x == CHOOSE y \in hs : TRUE IN x @@ MergeAll(hs \ {x})

\* an object at `id` with what it refers to, nested at most d deeper: a plain
\* mutable object, or an estimator with some of the parameters `names`, each
\* an atom or (when d > 0) an object of its own
RECURSIVE ObjHeaps(_, _, _, _)
ObjHeaps(id, cls, names, d) ==
    LET options(n) ==
            {[v |-> a, h |-> <<>>] : a \in LeafAtoms}
                \cup IF d = 0 THEN {}
                     ELSE {[v |-> Child(id, NameIndex(n)), h |-> sh] :
                            sh \in ObjHeaps(Child(id, NameIndex(n)), "Inner",
                                            NestedNames, d - 1)}
        choices(S) == {f \in [S -> UNION {options(n) : n \in S}] :
                            \A n \in S : f[n] \in options(n)}
        est_heap(S, f) ==
            (id :> EstObj(cls, [p \in {<<n>> : n \in S} |-> f[p[1]].v]))
                @@ MergeAll({f[n].h : n \in S})
    IN  (IF cls = "Inner" THEN {id :> PlainObj} ELSE {})
            \cup UNION {{est_heap(S, f) : f \in choices(S)} : S \in SUBSET names}

\* the __init__ parameters of a class that declares the names S, each with
\* the default None
SignatureOf(S) ==
    LET ordered == SelectSeq(<<"a", "b">>, LAMBDA n : n \in S)
    IN  [i \in DOMAIN ordered |-> Param(ordered[i], TRUE, PyNone)]

InitGetParams ==
    /\ InitCommon
    /\ \E h \in ObjHeaps(Root, "Est", RootNames, MaxNest),
          get_mode \in {"deep", "shallow", "empty_deep", "none_deep", "dict"},
          has_required \in BOOLEAN, has_get \in BOOLEAN,
          deep_sig \in {"absent"} \cup DeepDefaults,
          declared \in SUBSET RootNames :
          /\ heap = h
          /\ estimator = [BaseClass EXCEPT
                            !.init_params = SignatureOf(declared),
                            !.get_mode = get_mode,
                            !.has_required = has_required,
                            !.has_get_params = has_get,
                            !.deep_sig = deep_sig]

InitSetParams ==
    /\ InitCommon
    /\ \E h \in ObjHeaps(Root, "Est", RootNames, MaxNest - 1),
          get_mode \in {"deep", "shallow", "dict"},
          set_mode \in {"store", "setattr", "copy", "new_param", "ignore"},
          fresh_keys \in BOOLEAN,
          has_get \in BOOLEAN, has_set \in BOOLEAN, returns_self \in BOOLEAN,
          returns_copy \in BOOLEAN :
          /\ fresh_keys => get_mode = "shallow"
          /\ returns_copy => ~returns_self
          /\ heap = h
          /\ estimator = [BaseClass EXCEPT
                            !.init_params =
                                SignatureOf({p[1] : p \in DOMAIN h[Root].attrs}),
                            !.get_mode = get_mode,
                            !.set_mode = set_mode,
                            !.fresh_keys = fresh_keys,
                            !.has_get_params = has_get,
                            !.has_set_params = has_set,
                            !.returns_self = returns_self,
                            !.returns_copy = returns_copy]

NextSetParams == CheckSetParams

SpecSetParams == InitSetParams /\ [][NextSetParams]_vars

\* the name of the i-th tuple of a list
ItemName(i) == IF i = 1 THEN "n1" ELSE IF i = 2 THEN "n2" ELSE "n3"

\* a list of n (name, component) tuples at id with its components, each an
\* object nested at most d deeper
ListHeaps(id, n, d) ==
    LET comps == [1..n -> UNION {ObjHeaps(Child(id, i - 1), "Inner", NestedNames, d) :
                                    i \in 1..n}]
        fits(f) == \A i \in 1..n : Child(id, i - 1) \in DOMAIN f[i]
    IN  {(id :> ListObj([i \in 1..n |-> <<ItemName(i), Child(id, i - 1)>>]))
            @@ MergeAll({f[i] : i \in 1..n}) : f \in {f \in comps : fits(f)}}

\* candidates whose only parameter, named in the marker, holds a list of
\* (name, component) tuples
CompositeCandidates ==
    {[heap |-> (Root :> EstObj("Est", <<"a">> :> Child(Root, 0))) @@ lh,
      estimator |-> [BaseClass EXCEPT
                        !.init_params = <<Param("a", FALSE, PyNone)>>,
                        !.has_required = TRUE,
                        !.required = <<"a">>,
                        !.get_mode = modes[1],
                        !.set_mode = modes[2]]] :
        lh \in UNION {ListHeaps(Child(Root, 0), n, MaxNest - 1) : n \in 0..MaxList},
        modes \in {"composition", "shallow"}
                    \X {"composition", "composition_copy", "setattr", "copy",
                        "drop_last"}}

\* candidates whose parameters are atoms, plain objects and estimators
PlainCandidates ==
    {[heap |-> h,
      estimator |-> [BaseClass EXCEPT
                        !.init_params =
                            SignatureOf({p[1] : p \in DOMAIN h[Root].attrs}),
                        !.has_required = flags[1],
                        !.required = IF flags[1] THEN <<"a">> ELSE <<>>,
                        !.has_get_params = flags[2],
                        !.has_set_params = flags[3],
                        !.get_mode = modes[1],
                        !.set_mode = modes[2]]] :
        h \in ObjHeaps(Root, "Est", RootNames, MaxNest),
        flags \in BOOLEAN \X BOOLEAN \X BOOLEAN,
        modes \in {"deep", "shallow", "dict"}
                    \X {"store", "setattr", "copy", "new_param", "ignore"}}

InitRoundTrip ==
    /\ InitCommon
    /\ \E c \in CompositeCandidates \cup PlainCandidates :
          /\ heap = c.heap
          /\ estimator = c.estimator

NextRoundTrip == CheckRoundTrip

SpecRoundTrip == InitRoundTrip /\ [][NextRoundTrip]_vars

NextGetParams == CheckGetParams

SpecGetParams == InitGetParams /\ [][NextGetParams]_vars

----------------------------------------------------------------------------
(* check_estimator_api_fit *)

\* calls fit and looks at what comes back
check_estimator_api_fit_calls_fit(est) ==
    IF ~est.has_fit
    THEN Violation("AssertionError", "no_fit", <<>>)
    ELSE IF est.fit_mode = "raises"
    THEN Crash("ValueError")
    ELSE IF est.fit_mode # "self"
    THEN Violation("AssertionError", "fit_not_self", <<>>)
    ELSE Pass

\* hasattr(estimator, "fit") is all that is asked
check_estimator_api_fit_result(est) ==
    IF ~est.has_fit
    THEN Violation("AssertionError", "no_fit", <<>>)
    ELSE Pass

CheckFit ==
    /\ check = "none"
    /\ check' = "fit"
    /\ result' = check_estimator_api_fit_result(estimator)
    /\ locals' = <<>>
    /\ UNCHANGED <<estimator, heap>>

\* what a fit method does when it is called
FitModes == {"self", "none", "raises"}

\* candidates that have or lack each of get_params, set_params and fit
InitOperations ==
    /\ InitCommon
    /\ \E h \in ObjHeaps(Root, "Est", RootNames, MaxNest - 1),
          has_get \in BOOLEAN, has_set \in BOOLEAN, has_fit \in BOOLEAN,
          fit_mode \in FitModes, deep_sig \in {"absent", "True"},
          get_mode \in {"deep", "dict"}, set_mode \in {"store", "ignore"},
          returns_self \in BOOLEAN :
          /\ has_fit \/ fit_mode = "self"
          /\ heap = h
          /\ estimator = [BaseClass EXCEPT
                            !.init_params =
                                SignatureOf({p[1] : p \in DOMAIN h[Root].attrs}),
                            !.has_get_params = has_get,
                            !.has_set_params = has_set,
                            !.has_fit = has_fit,
                            !.fit_mode = fit_mode,
                            !.deep_sig = deep_sig,
                            !.get_mode = get_mode,
                            !.set_mode = set_mode,
                            !.returns_self = returns_self]

NextOperations == CheckGetParams \/ CheckSetParams \/ CheckFit

SpecOperations == InitOperations /\ [][NextOperations]_vars

\* no parameter was read or written by the check
NothingEvaluated ==
    \/ locals = <<>>
    \/ /\ check = "get_params"
       /\ locals.estimator_get_params_shallow = <<>>
       /\ locals.estimator_get_params_deep = <<>>
       /\ locals.expected_params = <<>>

\* C16: a candidate without get_params, set_params or fit fails the check of
\* that method with the violation of the missing method and nothing else of
\* the check is evaluated; a candidate with a fit attribute passes the fit
\* check whatever calling fit would do
C16_MissingOperation ==
    /\ (check = "get_params" /\ ~estimator.has_get_params) =>
            /\ result = Violation("AssertionError", "no_get_params", <<>>)
            /\ NothingEvaluated
    /\ (check = "set_params" /\ ~estimator.has_set_params) =>
            /\ result = Violation("AssertionError", "no_set_params", <<>>)
            /\ NothingEvaluated
    /\ (check = "fit" /\ ~estimator.has_fit) =>
            /\ result = Violation("AssertionError", "no_fit", <<>>)
            /\ NothingEvaluated
    /\ (check = "fit" /\ estimator.has_fit) => result = Pass

C16_Witness ==
    /\ check = "fit"
    /\ estimator.has_fit
    /\ estimator.fit_mode = "raises"
    /\ result = Pass

\* C19: a check that has run ended silently or with a contract violation,
\* never with any other exception
C19_BinaryOutcome ==
    check # "none" => result.status \in {"pass", "violation"}

----------------------------------------------------------------------------
(* The worklist loop of check_estimator_api_get_params, turn by turn *)

\* h with an estimator class in the place of one of its atoms
WithClass(h) ==
    {[h EXCEPT ![id].attrs[k] = PyClass] :
        id \in {x \in DOMAIN h : h[x].kind = "est"},
        k \in UNION {{q \in DOMAIN h[x].attrs : ~IsRef(h[x].attrs[q])} :
                        x \in DOMAIN h}} \ {h}

\* h with the value of parameter a held by parameter b too
WithShared(h) ==
    IF {<<"a">>, <<"b">>} \subseteq DOMAIN h[Root].attrs
    THEN {[h EXCEPT ![Root].attrs[<<"b">>] = h[Root].attrs[<<"a">>]]}
    ELSE {}

\* candidates that reach the loop: trees of estimators, some with a value
\* reached along two paths, some with an estimator class as a value
InitWorklist ==
    /\ check = "none"
    /\ result = NoResult
    /\ \E tree \in ObjHeaps(Root, "Est", RootNames, MaxNest),
          get_mode \in {"deep", "dict"} :
        \E h \in {tree} \cup WithShared(tree) \cup WithClass(tree) :
          /\ heap = h
          /\ estimator = [BaseClass EXCEPT
                            !.init_params =
                                SignatureOf({p[1] : p \in DOMAIN h[Root].attrs}),
                            !.get_mode = get_mode]
          /\ locals = [pc |-> "start",
                       candidate |-> h,
                       nested_estimator |-> <<>>,
                       expected_params |-> <<>>,
                       nesting_level |-> 0,
                       popped |-> <<>>]

\* nested_estimator.put((name, estimator)), the first expected_params and
\* nesting_level = 0
WorklistStart ==
    /\ "pc" \in DOMAIN locals
    /\ locals.pc = "start"
    /\ \E st \in {worklist_start(estimator, heap)} :
            locals' = [locals EXCEPT
                        !.pc = "loop",
                        !.nested_estimator = st.nested_estimator,
                        !.expected_params = st.expected_params,
                        !.nesting_level = st.nesting_level]
    /\ UNCHANGED <<estimator, heap, check, result>>

\* one turn of `while not nested_estimator.empty()`; the mapping a candidate
\* hands out as its instance __dict__ is written into the instance
WorklistTurn ==
    /\ "pc" \in DOMAIN locals
    /\ locals.pc = "loop"
    /\ locals.nested_estimator # <<>>
    /\ \E st \in {worklist_turn(estimator, heap,
                        [nested_estimator |-> locals.nested_estimator,
                         expected_params |-> locals.expected_params,
                         nesting_level |-> locals.nesting_level,
                         exc |-> "none"])} :
        /\ locals' = [locals EXCEPT
                        !.pc = IF st.exc # "none" THEN "raised" ELSE "loop",
                        !.nested_estimator = st.nested_estimator,
                        !.expected_params = st.expected_params,
                        !.nesting_level = st.nesting_level,
                        !.popped = Append(@, locals.nested_estimator[
                                                Len(locals.nested_estimator)])]
        /\ result' = IF st.exc # "none" THEN Crash(st.exc) ELSE result
        /\ heap' = IF estimator.get_mode = "dict" /\ st.exc = "none"
                   THEN [heap EXCEPT ![Root].attrs = st.expected_params]
                   ELSE heap
    /\ UNCHANGED <<estimator, check>>

\* the queue is empty: the loop is left
WorklistExit ==
    /\ "pc" \in DOMAIN locals
    /\ locals.pc = "loop"
    /\ locals.nested_estimator = <<>>
    /\ locals' = [locals EXCEPT !.pc = "done"]
    /\ UNCHANGED <<estimator, heap, check, result>>

NextWorklist == WorklistStart \/ WorklistTurn \/ WorklistExit

SpecWorklist == InitWorklist /\ [][NextWorklist]_vars

\* the interpreter runs the loop on: a turn that can be taken is taken
SpecWorklistLive == SpecWorklist /\ WF_vars(NextWorklist)

\* a value that bears parameters: what answers hasattr(value, "get_params")
Bearer(h, v) == v = PyClass \/ (IsRef(v) /\ h[v].kind = "est")

\* the (path, value) pairs of the parameter-bearing values below the
\* estimator id, whose own path is prefix
RECURSIVE BearerPaths(_, _, _)
BearerPaths(h, id, prefix) ==
    LET direct == {<<prefix \o k, h[id].attrs[k]>> :
                    k \in {q \in DOMAIN h[id].attrs : Bearer(h, h[id].attrs[q])}}
    IN  direct \cup UNION {BearerPaths(h, pv[2], pv[1]) :
                                pv \in {d \in direct : IsRef(d[2])}}

\* the (path, parameter) pairs: every parameter of the root and of every
\* estimator instance below it, under each path leading to it
ParameterPaths(h) ==
    DOMAIN h[Root].attrs
        \cup UNION {{pv[1] \o k : k \in DOMAIN h[pv[2]].attrs} :
                        pv \in {d \in BearerPaths(h, Root, <<>>) : IsRef(d[2])}}

\* the loop is over with an empty worklist, the root and every
\* parameter-bearing value were popped once per path, and there is one entry
\* per (path, parameter)
WorklistPostcondition ==
    /\ locals.pc = "done"
    /\ locals.nested_estimator = <<>>
    /\ \A a, b \in DOMAIN locals.popped :
            a # b => locals.popped[a] # locals.popped[b]
    /\ Range(locals.popped) =
            {<<<<estimator.cls>>, Root>>} \cup BearerPaths(locals.candidate, Root, <<>>)
    /\ DOMAIN locals.expected_params = ParameterPaths(locals.candidate)

\* C21: for every candidate with a finite acyclic graph of parameter-bearing
\* values the worklist loop comes to its end with an empty worklist, the
\* root popped once, every nested parameter-bearing value popped once per
\* path and one entry recorded per (path, parameter)
C21_WorklistTerminates == <>WorklistPostcondition

----------------------------------------------------------------------------
(* yield_estimator_api_checks and parametrize_with_checks *)

\* leaves the fit check out for a candidate without fit
yield_checks_by_candidate(est) ==
    IF est.has_fit
    THEN <<"clone", "parameter_init", "get_params", "set_params", "round_trip",
           "fit">>
    ELSE <<"clone", "parameter_init", "get_params", "set_params", "round_trip">>

\* the checks the generator yields for a candidate, in the order of its yields
yield_estimator_api_checks(est) ==
    <<"clone", "parameter_init", "get_params", "set_params", "round_trip", "fit">>

\* _maybe_mark_xfail(estimator, partial(check, name), pytest): the pair
maybe_mark_xfail(i, name, c) == [estimator |-> i, name |-> name, check |-> c]

\* the candidates a supplier may hand over
SuppliedClasses ==
    {[BaseClass EXCEPT !.cls = cls, !.has_fit = has_fit] :
        cls \in {"Est", "SubEst"}, has_fit \in BOOLEAN}

\* parametrize_with_checks(estimators, checks) before the first next()
InitGenerator ==
    /\ check = "none"
    /\ result = NoResult
    /\ estimator = BaseClass
    /\ heap = <<>>
    /\ \E n \in 0..MaxEstimators :
        \E estimators \in [1..n -> SuppliedClasses] :
            locals = [estimators |-> estimators,
                      i |-> 0,
                      pending |-> <<>>,
                      parameters |-> <<>>,
                      exhausted |-> FALSE]

\* `for estimator in estimators`: the next candidate, its name and the
\* generator of its checks
NextEstimator ==
    /\ "estimators" \in DOMAIN locals
    /\ ~locals.exhausted
    /\ locals.pending = <<>>
    /\ locals.i < Len(locals.estimators)
    /\ estimator' = locals.estimators[locals.i + 1]
    /\ locals' = [locals EXCEPT
                    !.i = @ + 1,
                    !.pending = yield_estimator_api_checks(estimator')]
    /\ UNCHANGED <<heap, check, result>>

\* `for check in checks(estimator)`: the next check, bound to the name and
\* yielded with the candidate
YieldCheck ==
    /\ "estimators" \in DOMAIN locals
    /\ locals.pending # <<>>
    /\ check' = Head(locals.pending)
    /\ locals' = [locals EXCEPT
                    !.pending = Tail(@),
                    !.parameters =
                        Append(@, maybe_mark_xfail(locals.i, estimator.cls,
                                                   Head(locals.pending)))]
    /\ UNCHANGED <<estimator, heap, result>>

\* both loops are over
StopIteration ==
    /\ "estimators" \in DOMAIN locals
    /\ ~locals.exhausted
    /\ locals.pending = <<>>
    /\ locals.i = Len(locals.estimators)
    /\ locals' = [locals EXCEPT !.exhausted = TRUE]
    /\ UNCHANGED <<estimator, heap, check, result>>

NextGenerator == NextEstimator \/ YieldCheck \/ StopIteration

SpecGenerator == InitGenerator /\ [][NextGenerator]_vars

\* the six checks in the order of the contract
PipelineOrder ==
    <<"clone", "parameter_init", "get_params", "set_params", "round_trip", "fit">>

\* C17: what the harness has yielded is, candidate by candidate in the order
\* of the supplier, the six checks in the fixed order, each once and bound to
\* the candidate's name, whatever the candidate; and when the generator is
\* exhausted every candidate has its six pairs
C17_PipelineOrder ==
    /\ \A k \in DOMAIN locals.parameters :
            /\ locals.parameters[k].estimator = ((k - 1) \div 6) + 1
            /\ locals.parameters[k].check = PipelineOrder[((k - 1) % 6) + 1]
            /\ locals.parameters[k].name =
                    locals.estimators[((k - 1) \div 6) + 1].cls
    /\ Len(locals.parameters) <= 6 * locals.i
    /\ locals.exhausted => Len(locals.parameters) = 6 * Len(locals.estimators)

C17_Witness ==
    /\ locals.exhausted
    /\ Len(locals.estimators) = 2
    /\ locals.estimators[1].has_fit # locals.estimators[2].has_fit
    /\ Len(locals.parameters) = 12

----------------------------------------------------------------------------
(* test_estimator_api: check(clone(estimator)) *)

\* clone(estimator) as the test function calls it: the candidate itself when
\* __sklearn_clone__ returns it, otherwise a new instance whose parameters are
\* duplicates of the candidate's
harness_clone(est, h) ==
    LET cloned == clone(est, h)
    IN  IF cloned.exc # "none"
        THEN [exc |-> cloned.exc, h |-> h, value |-> PyNone]
        ELSE IF cloned.value = Root
        THEN [exc |-> "none", h |-> h, value |-> Root]
        ELSE [exc |-> "none",
              h |-> deepcopy(h, {Root}, NextGen(h)),
              value |-> Copy(Root, NextGen(h))]

\* the round-trip check on the instance id: the parameters are set in place
RoundTripOn(h, id) ==
    IF ~estimator.has_get_params \/ ~estimator.has_set_params
    THEN /\ result' = Crash("AttributeError")
         /\ heap' = h
    ELSE \E g \in {NextGen(h)} :
         \E params \in {get_params(estimator, h, id, TRUE)} :
         \E original_params \in {[k \in DOMAIN params |-> Copy(params[k], g)]} :
         \E set \in {set_params(estimator, deepcopy(h, Range(params), g), id,
                                original_params)} :
         \E updated_params \in {IF set.exc # "none" THEN <<>>
                                ELSE get_params(estimator, set.h, id, TRUE)} :
            /\ result' \in IF set.exc # "none" THEN {Crash(set.exc)}
                           ELSE round_trip_outcomes(estimator, set.h,
                                    original_params, updated_params)
            /\ heap' = set.h

\* the set_params check: it works on deep copies of the instance it is given
SetParamsOn(h) ==
    /\ heap' = h
    /\ IF ~estimator.has_set_params
       THEN result' = Violation("AssertionError", "no_set_params", <<>>)
       ELSE IF ~is_cloned_estimator(set_params_no_arguments(estimator, heap, Root),
                                    Root)
       THEN result' = Violation("AssertionError", "not_self", <<>>)
       ELSE IF ~estimator.has_get_params
       THEN result' = Crash("AttributeError")
       ELSE \E todo \in {probes(estimator, heap)} :
            \E turns \in {[pv \in Range(todo) |->
                            probe(estimator, heap, pv[1], pv[2])]} :
                result' \in probe_loop(estimator, turns, todo, 1)

\* the checks that read the instance or work on duplicates of it
ReadOnlyCheck(c) ==
    CASE c = "clone" -> check_estimator_api_clone_result(estimator, heap)
      [] c = "parameter_init" ->
            check_estimator_api_parameter_init_result(estimator, heap)
      [] c = "get_params" -> check_estimator_api_get_params_result(estimator, heap)
      [] OTHER -> check_estimator_api_fit_result(estimator)

\* the supplier's candidate, whose get_params builds a new mapping at every
\* call, and the six pairs collected for it
InitHarness ==
    /\ check = "none"
    /\ result = NoResult
    /\ \E h \in ObjHeaps(Root, "Est", RootNames, MaxNest - 1),
          sklearn_clone \in {"absent", "self"},
          set_mode \in {"store", "copy", "ignore"},
          has_get \in BOOLEAN, has_set \in BOOLEAN :
          /\ heap = h
          /\ estimator = [BaseClass EXCEPT
                            !.init_params =
                                SignatureOf({p[1] : p \in DOMAIN h[Root].attrs}),
                            !.sklearn_clone = sklearn_clone,
                            !.get_mode = "deep",
                            !.set_mode = set_mode,
                            !.has_get_params = has_get,
                            !.has_set_params = has_set]
          /\ locals = [supplied |-> h,
                       pending |-> yield_estimator_api_checks(estimator),
                       operated |-> <<>>]

\* one run of test_estimator_api(estimator, check, request)
RunPair ==
    /\ "operated" \in DOMAIN locals
    /\ locals.pending # <<>>
    /\ check' = Head(locals.pending)
    /\ \E cloned \in {harness_clone(estimator, heap)} :
        /\ locals' = [locals EXCEPT
                        !.pending = Tail(@),
                        !.operated = IF cloned.exc = "none"
                                     THEN Append(@, cloned.value) ELSE @]
        /\ IF cloned.exc # "none"
           THEN /\ result' = Crash(cloned.exc)
                /\ heap' = heap
           ELSE IF check' = "round_trip"
           THEN RoundTripOn(cloned.h, cloned.value)
           ELSE IF check' = "set_params"
           THEN SetParamsOn(cloned.h)
           ELSE /\ result' = ReadOnlyCheck(check')
                /\ heap' = cloned.h
    /\ UNCHANGED estimator

NextHarness == RunPair

SpecHarness == InitHarness /\ [][NextHarness]_vars

\* C18: every run works on an instance of its own, never the supplier's, and
\* nothing the supplier produced is ever changed by a run
C18_InstanceIsolation ==
    /\ \A a, b \in DOMAIN locals.operated :
            a # b => locals.operated[a] # locals.operated[b]
    /\ \A a \in DOMAIN locals.operated : locals.operated[a] # Root
    /\ \A id \in DOMAIN locals.supplied : heap[id] = locals.supplied[id]

----------------------------------------------------------------------------
(* Properties of check_estimator_api_get_params *)

GetParamsPassed == check = "get_params" /\ result.status = "pass"

\* the check got as far as reading get_params(deep=True)
DeepWasRead ==
    /\ check = "get_params"
    /\ result.status # "error"
    /\ result.rule \in {"none", "not_subset", "deep_incorrect"}

\* the recursive expansion of a shallow mapping: its own items and, under
\* name__key, the deep parameters of every value that has get_params
ReferenceDeep(h, shallow) ==
    LET nested == {p \in DOMAIN shallow : has_get_params(h, shallow[p])}
        sub(p) == base_get_params(h, shallow[p], DOMAIN h[shallow[p]].attrs, TRUE)
    IN  [q \in DOMAIN shallow \cup UNION {{p \o r : r \in DOMAIN sub(p)} : p \in nested} |->
            IF q \in DOMAIN shallow THEN shallow[q] ELSE sub(<<q[1]>>)[Tail(q)]]

\* C4: for a candidate without the required-parameters marker, the check
\* passes only if the get_params(deep=True) the candidate handed out equals
\* the worklist expansion of its shallow parameters (root keys bare, nested
\* keys parent__key, every value with get_params expanded in turn); a
\* candidate whose deep retrieval omits nested parameters does not pass
C4_DeepEqualsWorklist ==
    (GetParamsPassed /\ ~estimator.has_required) =>
        /\ DOMAIN locals.estimator_get_params_deep =
                DOMAIN ReferenceDeep(heap, locals.estimator_get_params_shallow)
        /\ \A q \in DOMAIN locals.estimator_get_params_deep :
                locals.estimator_get_params_deep[q] =
                    ReferenceDeep(heap, locals.estimator_get_params_shallow)[q]

\* the shallow mapping is contained in the deep one, item by item
ShallowInDeep ==
    \A k \in DOMAIN locals.estimator_get_params_shallow :
        /\ k \in DOMAIN locals.estimator_get_params_deep
        /\ \/ locals.estimator_get_params_deep[k] =
                    locals.estimator_get_params_shallow[k]
           \/ PyEq(heap, locals.estimator_get_params_deep[k],
                   locals.estimator_get_params_shallow[k])

ShallowWasRead ==
    /\ check = "get_params"
    /\ estimator.has_get_params
    /\ result.rule \notin {"no_deep_parameter", "deep_default_not_true"}
    /\ result.status # "error"

\* the names the constructor declares
Declared == {<<estimator.init_params[i].name>> : i \in DOMAIN estimator.init_params}

\* the keys get_params(deep=False) returned
Retrieved == DOMAIN locals.estimator_get_params_shallow

\* C15: once the shallow parameters are read, the check reports a mismatch
\* exactly when the declared names and the retrieved keys differ, it never
\* passes then, and the diagnostic names exactly the declared names that were
\* not retrieved and exactly the retrieved keys that are not declared
C15_InitMatchesShallow ==
    ShallowWasRead =>
        /\ (result.rule = "init_get_params_mismatch") <=> (Declared # Retrieved)
        /\ Declared # Retrieved =>
                /\ result.status = "violation"
                /\ result.exc = "AssertionError"
                /\ locals.missing_get_params = {n \in Declared : n \notin Retrieved}
                /\ locals.additional_get_params = {k \in Retrieved : k \notin Declared}

C15_Witness ==
    /\ ShallowWasRead
    /\ result.rule = "init_get_params_mismatch"
    /\ locals.missing_get_params # {}
    /\ locals.additional_get_params # {}

\* neither mapping was read and the worklist did not run
NothingRead ==
    /\ locals.estimator_get_params_shallow = <<>>
    /\ locals.estimator_get_params_deep = <<>>
    /\ locals.expected_params = <<>>

\* C20: the violation reported is that of the first rule, in the order
\* get_params present, `deep` accepted, `deep` defaults to True, declared
\* names equal to the shallow keys, shallow contained in deep, deep equal to
\* the worklist expansion, that the candidate violates, and nothing a later
\* rule needs has been read or computed
C20_FirstViolationWins ==
    check = "get_params" =>
        /\ ~estimator.has_get_params =>
                result.rule = "no_get_params" /\ NothingRead
        /\ (estimator.has_get_params /\ estimator.deep_sig = "absent") =>
                result.rule = "no_deep_parameter" /\ NothingRead
        /\ (estimator.has_get_params /\ estimator.deep_sig \notin {"absent", "True"}) =>
                result.rule = "deep_default_not_true" /\ NothingRead
        /\ (ShallowWasRead /\ Declared # Retrieved) =>
                /\ result.rule = "init_get_params_mismatch"
                /\ locals.estimator_get_params_deep = <<>>
                /\ locals.expected_params = <<>>
        /\ (DeepWasRead /\ ~ShallowInDeep) =>
                /\ result.rule = "not_subset"
                /\ locals.expected_params = <<>>
        /\ result.rule = "deep_incorrect" =>
                /\ estimator.has_get_params
                /\ estimator.deep_sig = "True"
                /\ Declared = Retrieved
                /\ ShallowInDeep
        /\ result.status = "violation" =>
                /\ result.exc = "AssertionError"
                /\ result.rule \in {"no_get_params", "no_deep_parameter",
                                    "deep_default_not_true",
                                    "init_get_params_mismatch", "not_subset",
                                    "deep_incorrect"}

C20_Witness ==
    /\ check = "get_params"
    /\ result.rule = "deep_default_not_true"
    /\ estimator.get_mode = "dict"
    /\ Declared # DOMAIN heap[Root].attrs

----------------------------------------------------------------------------
(* Properties of check_estimator_api_set_params *)

SetParamsPassed == check = "set_params" /\ result.status = "pass"

\* C2: the check passes only if, for every shallow parameter p and every
\* sentinel v of -inf, +inf, None, the copy that had its own shallow
\* parameters re-applied and then only p set to v reports the same keys,
\* holds the very object v under p and under every other key the very object
\* it held before
C2_IsolatedMutation ==
    SetParamsPassed =>
        /\ DOMAIN locals.probes =
                (DOMAIN get_params(estimator, heap, Root, FALSE))
                    \X {NegInf, NpInf, PyNone}
        /\ \A pv \in DOMAIN locals.probes :
            LET pr == locals.probes[pv]
            IN  /\ DOMAIN pr.current_params = DOMAIN pr.original_params
                /\ pr.current_params[pv[1]] = pv[2]
                /\ \A k \in DOMAIN pr.current_params \ {pv[1]} :
                        pr.current_params[k] = pr.original_params[k]

\* C14: the check passes only if set_params() on the copy returns that very
\* copy; a set_params that returns anything else is reported as not returning
\* self, and then no parameter has been probed
C14_Chaining ==
    (check = "set_params" /\ estimator.has_set_params) =>
        /\ result.status = "pass" =>
                set_params_no_arguments(estimator, heap, Root) = Root
        /\ set_params_no_arguments(estimator, heap, Root) # Root =>
                /\ result = Violation("AssertionError", "not_self", <<>>)
                /\ "probes" \notin DOMAIN locals
        /\ result.rule = "not_self" =>
                locals.returned # Root

C14_Witness ==
    /\ check = "set_params"
    /\ result.rule = "not_self"
    /\ IsRef(locals.returned)
    /\ DOMAIN get_params(estimator, heap, Root, FALSE) # {}

\* the turns the loop made
ProbesMade == check = "set_params" /\ "probes" \in DOMAIN locals

\* the shallow parameters of the candidate that was passed
PassedParams == get_params(estimator, heap, Root, FALSE)

\* C22: whether the check passes or fails, every turn of the loop sets
\* parameters on a duplicate of its own and on nothing else: no object of the
\* passed candidate is changed by a turn, so its shallow parameters are the
\* objects they were, and every turn starts from duplicates of the
\* candidate's own parameters, not from what an earlier turn left
C22_ArgumentUntouched ==
    ProbesMade =>
        \A pv \in DOMAIN locals.probes :
            LET pr == locals.probes[pv]
            IN  /\ pr.cloned_estimator \notin DOMAIN heap
                /\ \A id \in DOMAIN heap : pr.h[id] = heap[id]
                /\ get_params(estimator, pr.h, Root, FALSE) = PassedParams
                /\ DOMAIN pr.original_params = DOMAIN PassedParams
                /\ \A k \in DOMAIN PassedParams :
                        IF IsRef(PassedParams[k])
                        THEN /\ pr.original_params[k] \notin DOMAIN heap
                             /\ pr.original_params[k] % Stride
                                    = PassedParams[k] % Stride
                        ELSE pr.original_params[k] = PassedParams[k]

C22_Witness ==
    /\ ProbesMade
    /\ result.status = "violation"
    /\ Cardinality(DOMAIN locals.probes) > 1
    /\ \E k \in DOMAIN PassedParams : IsRef(PassedParams[k])
    /\ \E pv \in DOMAIN locals.probes :
            LET pr == locals.probes[pv]
            IN  /\ pr.exc = "none"
                /\ pr.h[pr.cloned_estimator].attrs # heap[Root].attrs

----------------------------------------------------------------------------
(* Properties of check_estimator_api_round_trip_get_set_params *)

RoundTripPassed == check = "round_trip" /\ result.status = "pass"

\* both snapshots were taken and have the same keys
RoundTripCompared ==
    /\ check = "round_trip"
    /\ result.status # "error"
    /\ result.rule # "key_set"
    /\ locals # <<>>

\* the keys of the snapshot that name a parameter of the marker holding a list
CompositeKeys ==
    {k \in DOMAIN locals.original_params :
        /\ estimator.has_required
        /\ Len(k) = 1 /\ k[1] \in Range(estimator.required)
        /\ IsRef(locals.original_params[k])
        /\ heap[locals.original_params[k]].kind = "list"}

\* the keys under which the second reading holds another object than the
\* snapshot
Changed ==
    {k \in DOMAIN locals.updated_params :
        locals.updated_params[k] # locals.original_params[k]}

\* C1: for a candidate without a composite parameter the check passes only
\* if the deep mapping read after set_params(**S) has the keys of the
\* snapshot S and holds under every key the very object S holds; when a value
\* was replaced by another object, a copy of it for one, the check fails with
\* the identity violation naming a parameter whose object changed
C1_RoundTripIdentity ==
    /\ (RoundTripPassed /\ CompositeKeys = {}) =>
            /\ DOMAIN locals.updated_params = DOMAIN locals.original_params
            /\ Changed = {}
    /\ (RoundTripCompared /\ CompositeKeys = {} /\ Changed # {}) =>
            /\ result.rule = "identity"
            /\ result.param \in Changed

C1_Witness ==
    /\ RoundTripPassed
    /\ CompositeKeys = {}
    /\ \E k \in DOMAIN locals.original_params :
            Len(k) = 2 /\ IsRef(locals.original_params[k])

\* the tuples of the list a value is
ItemsOf(v) == IF IsRef(v) /\ heap[v].kind = "list" THEN Range(heap[v].items) ELSE {}

\* C3: when a key of the snapshot names a parameter of the marker whose value
\* is a list of (name, component) tuples, the check passes only if every
\* tuple of the list before the round trip has a tuple of the same name
\* after it whose component is the very same object, whether or not the list
\* and the tuples were rebuilt
C3_CompositeComponents ==
    RoundTripPassed =>
        \A k \in CompositeKeys :
            \A before \in ItemsOf(locals.original_params[k]) :
                \E after \in ItemsOf(locals.updated_params[k]) : after = before

\* both snapshots of the round trip were taken
SnapshotsTaken ==
    /\ check = "round_trip"
    /\ estimator.has_get_params /\ estimator.has_set_params
    /\ "updated_params" \in DOMAIN locals

\* C11: once both snapshots are taken the round-trip check fails with the
\* key-set violation exactly when their key sets differ, whether or not a
\* value changed as well, and the diagnostic names exactly the keys that are
\* in one of the two key sets and not in the other
C11_KeySetFirst ==
    SnapshotsTaken =>
        /\ result.rule = "key_set" <=>
                DOMAIN locals.original_params # DOMAIN locals.updated_params
        /\ result.rule = "key_set" =>
            /\ result.status = Violation("AssertionError", "key_set", <<>>).status
            /\ locals.problematic =
                {k \in DOMAIN locals.original_params \cup DOMAIN locals.updated_params :
                    (k \in DOMAIN locals.original_params)
                        # (k \in DOMAIN locals.updated_params)}

C11_Witness ==
    /\ SnapshotsTaken
    /\ result.rule = "key_set"
    /\ \E k \in DOMAIN locals.original_params \cap DOMAIN locals.updated_params :
            locals.updated_params[k] # locals.original_params[k]

\* the check has looked at the signature of get_params
SignatureLookedAt == check = "get_params" /\ estimator.has_get_params

SignatureRules == {"no_deep_parameter", "deep_default_not_true"}

\* C12 as claimed: a get_params without `deep`, or whose `deep` does not
\* default to a true-equivalent value, fails with a contract violation, and
\* one whose `deep` defaults to a true-equivalent value does not fail at this
\* stage
C12_TrueEquivalentDefault ==
    SignatureLookedAt =>
        /\ estimator.deep_sig = "absent" => result.rule = "no_deep_parameter"
        /\ estimator.deep_sig \in {"empty", "False"} =>
                result.rule = "deep_default_not_true"
        /\ estimator.deep_sig \in {"1", "True"} => result.rule \notin SignatureRules

\* C12: a get_params without `deep`, or whose `deep` has another default
\* than True itself, fails with a contract violation (an AssertionError), and
\* one whose `deep` defaults to True does not fail at this stage
C12_DefaultIsTrue ==
    SignatureLookedAt =>
        /\ estimator.deep_sig = "absent" =>
                result.rule = "no_deep_parameter" /\ result.exc = "AssertionError"
        /\ estimator.deep_sig \in {"empty", "False", "1"} =>
                result.rule = "deep_default_not_true" /\ result.exc = "AssertionError"
        /\ estimator.deep_sig = "True" => result.rule \notin SignatureRules

C12_Witness ==
    /\ SignatureLookedAt
    /\ estimator.deep_sig = "1"
    /\ result.rule = "deep_default_not_true"

====
